---------------------------- MODULE Spec2Model ----------------------------
(***************************************************************************)
(* Model of tauri-typed-invoke (src/lib.rs): build() scans every *.rs file *)
(* below the working directory for functions that carry a command         *)
(* attribute and writes the union of their names to invoke.d.ts.           *)
(*                                                                         *)
(* Text is a sequence of one-character strings, so the regular expression  *)
(* of parse_functions and the template of get_content work on the          *)
(* characters the program sees.                                            *)
(***************************************************************************)
EXTENDS Naturals, Sequences, FiniteSets

VARIABLES
    env_set,     \* CARGO_MANIFEST_DIR is present in the environment
    dir_exists,  \* <manifest dir>/<path> exists as a directory
    tree,        \* the source tree below the working directory, in glob order
    out,         \* <manifest dir>/<path>/invoke.d.ts: [exists, text]
    pc,          \* position of the running build(): idle, glob, read, write
    idx,         \* position of the glob iterator in the walk
    names,       \* parse_functions: the Vec<String> names
    directives,  \* the cargo:rerun-if-changed lines printed by this run
    reads,       \* the files this run has read: [file, caps]
    out0,        \* invoke.d.ts as it was when this run started
    wrote,       \* how often this run has opened invoke.d.ts for writing
    log          \* one record per finished run of build()

vars == <<env_set, dir_exists, tree, out, pc, idx, names, directives, reads,
          out0, wrote, log>>

--------------------------------------------------------------------------
(* Bounds of the model *)

MaxFiles == 2

MaxRuns == 2

--------------------------------------------------------------------------
(* Text helpers *)

Min(S) == CHOOSE x \in S : \A y \in S : x <= y

Max(S) == CHOOSE x \in S : \A y \in S : x >= y

Range(s) == {s[i] : i \in 1..Len(s)}

RECURSIVE Flatten(_)
Flatten(ss) == IF ss = << >> THEN << >> ELSE Head(ss) \o Flatten(Tail(ss))

\* text[i..] starts with the literal lit
StartsWithAt(text, i, lit) ==
    /\ i + Len(lit) - 1 <= Len(text)
    /\ \A k \in 1..Len(lit) : text[i + k - 1] = lit[k]

EndsWith(text, lit) ==
    /\ Len(lit) <= Len(text)
    /\ StartsWithAt(text, Len(text) - Len(lit) + 1, lit)

\* first position j >= i whose character is not in the class (Len+1 at the end)
RunEnd(text, i, class) ==
    Min({j \in i..(Len(text) + 1) : j = Len(text) + 1 \/ text[j] \notin class})

--------------------------------------------------------------------------
(* The regular expression of parse_functions:                              *)
(*   (?m)\#\[(?:tauri::)?command][\s\w]*fn\s+([\w\d_-]+)                   *)

\* \w (and \d, a subset of it)
WordChars ==
    {"a", "b", "c", "d", "e", "f", "g", "h", "i", "j", "k", "l", "m", "n", "o", "p", "q", "r",
      "s", "t", "u", "v", "w", "x", "y", "z", "A", "B", "C", "D", "E", "F", "G", "H", "I", "J",
      "K", "L", "M", "N", "O", "P", "Q", "R", "S", "T", "U", "V", "W", "X", "Y", "Z", "0", "1",
      "2", "3", "4", "5", "6", "7", "8", "9", "_"}

\* \s
SpaceChars == {" ", "\t", "\n", "\r"}

\* [\s\w]
SpaceOrWordChars == SpaceChars \cup WordChars

\* [\w\d_-]
IdentChars == WordChars \cup {"-"}

LitOpen == <<"#", "[">>

LitTauri == <<"t", "a", "u", "r", "i", ":", ":">>

LitCommand == <<"c", "o", "m", "m", "a", "n", "d", "]">>

LitFn == <<"f", "n">>

\* \#\[(?:tauri::)?command]  at position s: the position after it, or 0
MarkerEnd(text, s) ==
    IF ~StartsWithAt(text, s, LitOpen) THEN 0
    ELSE LET a == s + Len(LitOpen)
         IN  IF /\ StartsWithAt(text, a, LitTauri)
                /\ StartsWithAt(text, a + Len(LitTauri), LitCommand)
             THEN a + Len(LitTauri) + Len(LitCommand)
             ELSE IF StartsWithAt(text, a, LitCommand)
                  THEN a + Len(LitCommand)
                  ELSE 0

\* fn\s+([\w\d_-]+)  at position p: \s+ and the group are greedy
FnAt(text, p) ==
    IF ~StartsWithAt(text, p, LitFn) THEN [ok |-> FALSE, from |-> 0, to |-> 0]
    ELSE LET w == p + Len(LitFn)
             n == RunEnd(text, w, SpaceChars)
             e == RunEnd(text, n, IdentChars)
         IN  [ok |-> n > w /\ e > n, from |-> n, to |-> e]

\* One attempt of the whole expression at position s.  [\s\w]* is greedy:
\* the engine takes the longest run that still lets the rest match.
MatchAt(text, s) ==
    LET m == MarkerEnd(text, s)
    IN  IF m = 0 THEN [ok |-> FALSE, from |-> 0, to |-> 0]
        ELSE LET r    == RunEnd(text, m, SpaceOrWordChars)
                 cand == {p \in m..r : FnAt(text, p).ok}
             IN  IF cand = {} THEN [ok |-> FALSE, from |-> 0, to |-> 0]
                 ELSE FnAt(text, Max(cand))

\* rx.captures_iter(&content): leftmost matches, none overlapping; cap[1]
RECURSIVE CapturesFrom(_, _)
CapturesFrom(text, pos) ==
    LET starts == {s \in pos..Len(text) : MatchAt(text, s).ok}
    IN  IF starts = {} THEN << >>
        ELSE LET mt == MatchAt(text, Min(starts))
             IN  <<SubSeq(text, mt.from, mt.to - 1)>> \o CapturesFrom(text, mt.to)

Captures(text) == CapturesFrom(text, 1)

--------------------------------------------------------------------------
(* get_content *)

Quote == <<"'">>

\* the separator of join
JoinSep == <<"\n", "\t", "\t", "|", " ">>

\* the format string up to {}
TemplateHead ==
    <<"i", "m", "p", "o", "r", "t", " ", "*", " ", "a", "s", " ", "t", "a", "u", "r", "i", " ",
      "f", "r", "o", "m", " ", "'", "@", "t", "a", "u", "r", "i", "-", "a", "p", "p", "s", "/",
      "a", "p", "i", "/", "t", "a", "u", "r", "i", "'", ";", "\n", "d", "e", "c", "l", "a", "r",
      "e", " ", "m", "o", "d", "u", "l", "e", " ", "'", "@", "t", "a", "u", "r", "i", "-", "a",
      "p", "p", "s", "/", "a", "p", "i", "/", "t", "a", "u", "r", "i", "'", " ", "{", "\n", " ",
      " ", " ", " ", "t", "y", "p", "e", " ", "C", "o", "m", "m", "a", "n", "d", "s", " ", "=",
      " ", "\n", "\t", "\t", " ", " ">>

\* the format string after {}
TemplateTail ==
    <<";", "\n", " ", " ", " ", " ", "f", "u", "n", "c", "t", "i", "o", "n", " ", "i", "n", "v",
      "o", "k", "e", "<", "T", ">", "(", "c", "m", "d", ":", " ", "C", "o", "m", "m", "a", "n",
      "d", "s", ",", " ", "a", "r", "g", "s", "?", ":", " ", "I", "n", "v", "o", "k", "e", "A",
      "r", "g", "s", ")", ":", " ", "P", "r", "o", "m", "i", "s", "e", "<", "T", ">", ";", "\n",
      "}">>

\* format!("'{}'", f)
Quoted(f) == Quote \o f \o Quote

\* .collect::<Vec<_>>().join(sep)
RECURSIVE Join(_, _)
Join(parts, sep) ==
    IF parts = << >> THEN << >>
    ELSE IF Len(parts) = 1 THEN parts[1]
         ELSE parts[1] \o sep \o Join(Tail(parts), sep)

\* faulty variant of get_content: a separator with a single tab
get_content_one_tab(ns) ==
    TemplateHead
      \o Join([i \in 1..Len(ns) |-> Quoted(ns[i])], <<"\n", "\t", "|", " ">>)
      \o TemplateTail

get_content(ns) ==
    TemplateHead \o Join([i \in 1..Len(ns) |-> Quoted(ns[i])], JoinSep) \o TemplateTail

--------------------------------------------------------------------------
(* The scanned sources.  A file is a sequence of declarations; a          *)
(* declaration is an optional attribute, the text between the attribute   *)
(* and the item, and the item.  The shapes are those of the example in    *)
(* the crate documentation and of tauri's command attribute.              *)

AttrText(attr) ==
    CASE attr = "none"                 -> << >>
      [] attr = "command"              -> <<"#", "[", "c", "o", "m", "m", "a", "n", "d", "]">>
      [] attr = "tauri::command"       -> <<"#", "[", "t", "a", "u", "r", "i", ":", ":", "c", "o", "m", "m", "a", "n", "d", "]">>
      [] attr = "command(args)"        -> <<"#", "[", "c", "o", "m", "m", "a", "n", "d", "(", "a", "s", "y", "n", "c", ")", "]">>
      [] attr = "tauri::command(args)" -> <<"#", "[", "t", "a", "u", "r", "i", ":", ":", "c", "o", "m", "m", "a", "n", "d", "(", "r",
      "e", "n", "a", "m", "e", "_", "a", "l", "l", " ", "=", " ", "\"", "s", "n", "a", "k", "e",
      "_", "c", "a", "s", "e", "\"", ")", "]">>

GapText(gap) ==
    CASE gap = "none"    -> << >>
      [] gap = "newline" -> <<"\n">>
      [] gap = "blank"   -> <<"\n", "\n", " ", "\t", "\n">>
      [] gap = "comment" -> <<"\n", "/", "/", " ", "n", "o", "t", "e", "\n">>

ItemText(item, name) ==
    CASE item = "fn"           -> <<"f", "n", " ">> \o name \o <<"(", ")", " ", "-", ">", " ", "S", "t", "r", "i", "n", "g", " ", "{", "}", "\n">>
      [] item = "pub async fn" -> <<"p", "u", "b", " ", "a", "s", "y", "n", "c", " ", "f", "n", " ">> \o name \o <<" ", "(", ")", " ", "{", "}", "\n">>
      [] item = "struct"       -> <<"s", "t", "r", "u", "c", "t", " ">> \o name \o <<";", "\n">>
      [] item = "struct where" -> <<"s", "t", "r", "u", "c", "t", " ">> \o name \o <<" ", "w", "h", "e", "r", "e", " ", "u", "8", ":", " ", "C", "o", "p", "y", ";", "\n">>
      [] item = "note"         -> <<"/", "/", " ", "#", "[", "c", "o", "m", "m", "a", "n", "d", "]", " ", "m", "a", "r", "k",
      "s", " ", "e", "a", "c", "h", " ", "f", "n", " ", "b", "e", "l", "o", "w", "\n">>

DeclText(d) == AttrText(d.attr) \o GapText(d.gap) \o ItemText(d.item, d.name)

SourceText(decls) == Flatten([i \in 1..Len(decls) |-> DeclText(decls[i])])

Decl(attr, gap, item, name) == [attr |-> attr, gap |-> gap, item |-> item, name |-> name]

get_weather == <<"g", "e", "t", "_", "w", "e", "a", "t", "h", "e", "r">>

get_config == <<"g", "e", "t", "_", "c", "o", "n", "f", "i", "g">>

my_fn == <<"m", "y", "_", "f", "n">>

helper == <<"h", "e", "l", "p", "e", "r">>

\* the file contents the model draws from
Sources ==
    { <<Decl("tauri::command", "newline", "fn", get_weather),
        Decl("command", "newline", "fn", get_config)>>,
      <<Decl("command", "newline", "fn", get_config)>>,
      <<Decl("none", "none", "fn", helper),
        Decl("command", "blank", "pub async fn", my_fn)>>,
      <<Decl("tauri::command(args)", "newline", "fn", get_weather),
        Decl("command(args)", "newline", "pub async fn", get_config)>>,
      <<Decl("tauri::command", "comment", "fn", get_config)>>,
      <<Decl("command", "newline", "struct", helper),
        Decl("none", "none", "fn", get_config),
        Decl("none", "none", "note", << >>),
        Decl("none", "none", "fn", helper)>>,
      <<Decl("command", "newline", "struct where", my_fn)>> }

\* what glob can yield for one directory entry: a path (whose file may or
\* may not be readable as UTF-8 text) or a GlobError
Entries ==
    {[ext |-> "rs", kind |-> "file", decls |-> s] : s \in Sources}
      \cup {[ext |-> "rs", kind |-> "unreadable", decls |-> << >>],
            [ext |-> "rs", kind |-> "globerr", decls |-> << >>],
            [ext |-> "txt", kind |-> "file",
             decls |-> <<Decl("command", "newline", "fn", get_config)>>]}

Letters == <<"a", "b", "c", "d", "e", "f">>

\* the path of the i-th entry of the source tree
SourcePath(i, ext) == <<"s", "r", "c", "/">> \o <<Letters[i]>> \o <<".">> \o
                      (IF ext = "rs" THEN <<"r", "s">> ELSE <<"t", "x", "t">>)

\* Path::new(manifest_dir).join(path).join("invoke.d.ts"), relative to the
\* working directory of the build script (the manifest directory)
typed_file == <<"u", "i", "/", "i", "n", "v", "o", "k", "e", ".", "d", ".", "t", "s">>

StaleText == <<"t", "y", "p", "e", " ", "C", "o", "m", "m", "a", "n", "d", "s", " ", "=", " ", "'", "o",
      "l", "d", "'", ";">>

Absent == [exists |-> FALSE, text |-> << >>]

\* The directory walk of glob("**/*.rs"): the source tree, then the
\* generated file when it exists.
WalkLen == Len(tree) + (IF out.exists THEN 1 ELSE 0)

WalkPath(i) == IF i <= Len(tree) THEN SourcePath(i, tree[i].ext) ELSE typed_file

WalkKind(i) == IF i <= Len(tree) THEN tree[i].kind ELSE "file"

\* the bytes of the i-th file of the walk
WalkText(i) == IF i <= Len(tree) THEN SourceText(tree[i].decls) ELSE out.text

\* the pattern **/*.rs
PatternMatches(path) == EndsWith(path, <<".", "r", "s">>)

--------------------------------------------------------------------------
(* build(), parse_functions(): one run after another of the build script  *)

Init ==
    /\ env_set \in BOOLEAN
    /\ dir_exists \in BOOLEAN
    /\ tree \in UNION {[1..n -> Entries] : n \in 0..MaxFiles}
    /\ out \in (IF dir_exists
                THEN {Absent, [exists |-> TRUE, text |-> StaleText]}
                ELSE {Absent})
    /\ pc = "idle"
    /\ idx = 1
    /\ names = << >>
    /\ directives = << >>
    /\ reads = << >>
    /\ out0 = out
    /\ wrote = 0
    /\ log = << >>

\* what a finished run leaves behind
RunRecord(result, err, o, ns, ds, rs, w) ==
    [result |-> result, err |-> err, out0 |-> out0, out |-> o, names |-> ns,
     directives |-> ds, reads |-> rs, wrote |-> w, at |-> idx]

\* build() returns, or the process panics
Finish(result, err, o, w) ==
    /\ pc' = "idle"
    /\ out' = o
    /\ wrote' = w
    /\ log' = Append(log, RunRecord(result, err, o, names, directives, reads, w))
    /\ UNCHANGED <<env_set, dir_exists, tree, idx, names, directives, reads, out0>>

\* env::var("CARGO_MANIFEST_DIR")? with the variable absent
BuildEnvMissing ==
    /\ pc = "idle"
    /\ Len(log) < MaxRuns
    /\ ~env_set
    /\ names' = << >>
    /\ directives' = << >>
    /\ reads' = << >>
    /\ out0' = out
    /\ wrote' = 0
    /\ idx' = 1
    /\ log' = Append(log, [result |-> "Err", err |-> "VarError", out0 |-> out,
                           out |-> out, names |-> << >>, directives |-> << >>,
                           reads |-> << >>, wrote |-> 0, at |-> 1])
    /\ UNCHANGED <<env_set, dir_exists, tree, out, pc>>

\* faulty variant of BuildStart: the output file is created (truncated)
\* before the sources are scanned
BuildStartTruncating ==
    /\ pc = "idle"
    /\ Len(log) < MaxRuns
    /\ env_set
    /\ pc' = "glob"
    /\ idx' = 1
    /\ names' = << >>
    /\ directives' = << >>
    /\ reads' = << >>
    /\ out0' = out
    /\ wrote' = IF dir_exists THEN 1 ELSE 0
    /\ out' = IF dir_exists THEN [exists |-> TRUE, text |-> << >>] ELSE out
    /\ UNCHANGED <<env_set, dir_exists, tree, log>>

\* build() up to the call of parse_functions(), which compiles the
\* expression and starts glob("**/*.rs")
BuildStart ==
    /\ pc = "idle"
    /\ Len(log) < MaxRuns
    /\ env_set
    /\ pc' = "glob"
    /\ idx' = 1
    /\ names' = << >>
    /\ directives' = << >>
    /\ reads' = << >>
    /\ out0' = out
    /\ wrote' = 0
    /\ UNCHANGED <<env_set, dir_exists, tree, out, log>>

\* file.unwrap() on a GlobError
GlobError ==
    /\ pc = "glob"
    /\ idx <= WalkLen
    /\ WalkKind(idx) = "globerr"
    /\ Finish("Panic", "GlobError", out, wrote)

\* the iterator passes over a path the pattern does not match
GlobSkip ==
    /\ pc = "glob"
    /\ idx <= WalkLen
    /\ WalkKind(idx) # "globerr"
    /\ ~PatternMatches(WalkPath(idx))
    /\ idx' = idx + 1
    /\ UNCHANGED <<env_set, dir_exists, tree, out, pc, names, directives, reads,
                   out0, wrote, log>>

\* faulty variant of Announce: the directive is not printed
AnnounceNothing ==
    /\ pc = "glob"
    /\ idx <= WalkLen
    /\ WalkKind(idx) # "globerr"
    /\ PatternMatches(WalkPath(idx))
    /\ pc' = "read"
    /\ UNCHANGED <<env_set, dir_exists, tree, out, idx, names, directives, reads,
                   out0, wrote, log>>

\* println!("cargo:rerun-if-changed={}", file.display())
Announce ==
    /\ pc = "glob"
    /\ idx <= WalkLen
    /\ WalkKind(idx) # "globerr"
    /\ PatternMatches(WalkPath(idx))
    /\ directives' = Append(directives, WalkPath(idx))
    /\ pc' = "read"
    /\ UNCHANGED <<env_set, dir_exists, tree, out, idx, names, reads, out0,
                   wrote, log>>

\* read_to_string(file).unwrap() and the captures_iter loop
ReadFile ==
    /\ pc = "read"
    /\ WalkKind(idx) = "file"
    /\ LET caps == Captures(WalkText(idx))
       IN  /\ names' = names \o caps
           /\ reads' = Append(reads, [file |-> idx, path |-> WalkPath(idx),
                                      caps |-> caps])
    /\ idx' = idx + 1
    /\ pc' = "glob"
    /\ UNCHANGED <<env_set, dir_exists, tree, out, directives, out0, wrote, log>>

\* read_to_string(file).unwrap() on a file that is not readable UTF-8 text
ReadFail ==
    /\ pc = "read"
    /\ WalkKind(idx) = "unreadable"
    /\ Finish("Panic", "ReadError", out, wrote)

\* the glob iterator is exhausted: parse_functions returns names
ScanDone ==
    /\ pc = "glob"
    /\ idx > WalkLen
    /\ pc' = "write"
    /\ UNCHANGED <<env_set, dir_exists, tree, out, idx, names, directives, reads,
                   out0, wrote, log>>

\* std::fs::write(typed_file, ..)? with no directory <manifest dir>/<path>
WriteNoDir ==
    /\ pc = "write"
    /\ ~dir_exists
    /\ Finish("Err", "NotFound", out, wrote)

\* std::fs::write(typed_file, ..)?: the file cannot be opened for writing
WriteCreateFails ==
    /\ pc = "write"
    /\ dir_exists
    /\ Finish("Err", "CreateError", out, wrote)

\* std::fs::write(typed_file, ..)?: the file is created or truncated, and
\* writing the content fails (here: before the first byte)
WriteAllFails ==
    /\ pc = "write"
    /\ dir_exists
    /\ Finish("Err", "WriteError", [exists |-> TRUE, text |-> << >>], wrote + 1)

\* faulty variant of WriteOk: the content is appended to the file
WriteAppending ==
    /\ pc = "write"
    /\ dir_exists
    /\ Finish("Ok", "none",
              [exists |-> TRUE, text |-> out.text \o get_content(names)], wrote + 1)

\* std::fs::write(typed_file, get_content(fn_names))?; Ok(())
WriteOk ==
    /\ pc = "write"
    /\ dir_exists
    /\ Finish("Ok", "none", [exists |-> TRUE, text |-> get_content(names)], wrote + 1)

Next ==
    \/ BuildEnvMissing
    \/ BuildStart
    \/ GlobError
    \/ GlobSkip
    \/ Announce
    \/ ReadFile
    \/ ReadFail
    \/ ScanDone
    \/ WriteNoDir
    \/ WriteCreateFails
    \/ WriteAllFails
    \/ WriteOk

Spec == Init /\ [][Next]_vars

--------------------------------------------------------------------------
(* What the sources declare, read off the declarations (not the text) *)

IsFnItem(d) == d.item \in {"fn", "pub async fn"}

\* a function that carries a command attribute
IsCommandFn(d) == d.attr # "none" /\ IsFnItem(d)

RECURSIVE CommandNames(_)
CommandNames(decls) ==
    IF decls = << >> THEN << >>
    ELSE (IF IsCommandFn(Head(decls)) THEN <<Head(decls).name>> ELSE << >>)
           \o CommandNames(Tail(decls))

\* the declarations of a file this run has read
DeclsOf(r) == IF r.file <= Len(tree) THEN tree[r.file].decls ELSE << >>

\* the paths of the *.rs files among the first n entries of the tree
RsPathsUpTo(n) ==
    LET ix == SelectSeq([i \in 1..n |-> i],
                        LAMBDA i : tree[i].ext = "rs" /\ tree[i].kind # "globerr")
    IN  [k \in 1..Len(ix) |-> SourcePath(ix[k], "rs")]

Running == pc \in {"glob", "read", "write"}

Last(s) == s[Len(s)]

--------------------------------------------------------------------------
(* C1 *)

DocLine1 == <<"i", "m", "p", "o", "r", "t", " ", "*", " ", "a", "s", " ", "t", "a", "u", "r", "i", " ",
      "f", "r", "o", "m", " ", "'", "@", "t", "a", "u", "r", "i", "-", "a", "p", "p", "s", "/",
      "a", "p", "i", "/", "t", "a", "u", "r", "i", "'", ";", "\n">>

DocLine2 == <<"d", "e", "c", "l", "a", "r", "e", " ", "m", "o", "d", "u", "l", "e", " ", "'", "@", "t",
      "a", "u", "r", "i", "-", "a", "p", "p", "s", "/", "a", "p", "i", "/", "t", "a", "u", "r",
      "i", "'", " ", "{", "\n">>

DocLine3 == <<" ", " ", " ", " ", "t", "y", "p", "e", " ", "C", "o", "m", "m", "a", "n", "d", "s", " ",
      "=", " ", "\n">>

DocLine4 == <<" ", " ", " ", " ", "f", "u", "n", "c", "t", "i", "o", "n", " ", "i", "n", "v", "o", "k",
      "e", "<", "T", ">", "(", "c", "m", "d", ":", " ", "C", "o", "m", "m", "a", "n", "d", "s",
      ",", " ", "a", "r", "g", "s", "?", ":", " ", "I", "n", "v", "o", "k", "e", "A", "r", "g",
      "s", ")", ":", " ", "P", "r", "o", "m", "i", "s", "e", "<", "T", ">", ";", "\n">>

\* the union, name by name: the first name bare, each later name after lead
RECURSIVE UnionText(_, _, _)
UnionText(ns, k, lead) ==
    IF k = 0 THEN << >>
    ELSE UnionText(ns, k - 1, lead)
           \o (IF k = 1 THEN << >> ELSE lead)
           \o <<"'">> \o ns[k] \o <<"'">>

Document(ns, lead) ==
    DocLine1 \o DocLine2 \o DocLine3
      \o <<"\t", "\t", " ", " ">> \o UnionText(ns, Len(ns), lead) \o <<";", "\n">>
      \o DocLine4 \o <<"}">>

--------------------------------------------------------------------------
(* C2 *)

\* C2: when the scan is over, names is the concatenation, file by file in
\* traversal order, of the names of each file's functions that carry a
\* command attribute, in the order they occur (duplicates kept).
C2_NamesAreTheCommandFunctions ==
    pc = "write" =>
        /\ [k \in 1..Len(reads) |-> reads[k].path] = RsPathsUpTo(Len(tree))
        /\ names = Flatten([k \in 1..Len(reads) |-> CommandNames(DeclsOf(reads[k]))])

--------------------------------------------------------------------------
(* C3 *)

HasArgs(d) == d.attr \in {"command(args)", "tauri::command(args)"}

\* C3: a function whose command attribute has an argument list is captured
\* from every file that was read.
C3_MarkerWithArgumentsCaptured ==
    \A k \in 1..Len(reads) :
        \A j \in 1..Len(DeclsOf(reads[k])) :
            LET d == DeclsOf(reads[k])[j]
            IN  (HasArgs(d) /\ IsFnItem(d)) => d.name \in Range(reads[k].caps)

--------------------------------------------------------------------------
(* C4 *)

\* C4: every name captured from a file is the name of a function of that
\* file that carries a command attribute; an attribute on something that is
\* no function, and a function without attribute, give no name.
C4_OnlyCommandFunctionsCaptured ==
    \A k \in 1..Len(reads) :
        Range(reads[k].caps) \subseteq Range(CommandNames(DeclsOf(reads[k])))

--------------------------------------------------------------------------
(* C9 *)

\* C9: a function separated from its command attribute by blank lines or
\* by a comment line is captured from every file that was read.
C9_BlankOrCommentGapCaptured ==
    \A k \in 1..Len(reads) :
        \A j \in 1..Len(DeclsOf(reads[k])) :
            LET d == DeclsOf(reads[k])[j]
            IN  (/\ d.attr \in {"command", "tauri::command"}
                 /\ d.gap \in {"blank", "comment"}
                 /\ IsFnItem(d)) => d.name \in Range(reads[k].caps)

--------------------------------------------------------------------------
(* C5 *)

\* C5: a run that gets as far as writing never fails for want of the output
\* directory: the directory is there afterwards, and the run fails only
\* when the file system refuses.
C5_OutputDirectoryCreated ==
    \A i \in 1..Len(log) :
        (log[i].err \notin {"VarError", "GlobError", "ReadError"}) =>
            /\ dir_exists
            /\ log[i].err # "NotFound"

--------------------------------------------------------------------------
(* C6 *)

\* C6: every run ends by build() returning Ok or Err to its caller.
C6_EveryFailureIsReturned ==
    \A i \in 1..Len(log) : log[i].result \in {"Ok", "Err"}

--------------------------------------------------------------------------
(* C7 *)

\* C7: while a run scans, the directives printed so far are exactly the
\* paths of the *.rs files the walk has yielded so far, each once and in
\* walk order; a file is read only after its directive; a run whose read
\* failed has printed the directive of the file it could not read; a run
\* that finished the scan has printed one directive per *.rs file.
C7_OneDirectivePerFileBeforeItsRead ==
    /\ pc \in {"glob", "write"} =>
           directives = RsPathsUpTo(IF idx - 1 <= Len(tree) THEN idx - 1 ELSE Len(tree))
    /\ pc = "read" => /\ idx <= Len(tree)
                      /\ directives = RsPathsUpTo(idx)
                      /\ Len(reads) + 1 = Len(directives)
    /\ Running => /\ Len(reads) <= Len(directives)
                  /\ \A k \in 1..Len(reads) : reads[k].path = directives[k]
    /\ \A i \in 1..Len(log) :
           /\ log[i].err = "ReadError" =>
                  /\ log[i].at <= Len(tree)
                  /\ log[i].directives = RsPathsUpTo(log[i].at)
                  /\ Last(log[i].directives) = SourcePath(log[i].at, "rs")
                  /\ Len(log[i].reads) + 1 = Len(log[i].directives)
           /\ log[i].err \notin {"VarError", "GlobError", "ReadError"} =>
                  /\ log[i].directives = RsPathsUpTo(Len(tree))
                  /\ [k \in 1..Len(log[i].reads) |-> log[i].reads[k].path]
                        = log[i].directives

C7_Witness ==
    \E i \in 1..Len(log) :
        /\ log[i].err = "ReadError"
        /\ Len(log[i].directives) = 2
        /\ Len(log[i].reads) = 1

--------------------------------------------------------------------------
(* C8 *)

\* C8: of two runs in a row that both succeed, the second leaves
\* invoke.d.ts with the content the first left, has scanned the same files
\* (invoke.d.ts is not among them) and has found the same names.
C8_SecondRunWritesTheSameFile ==
    \A i \in 1..Len(log) :
        (i > 1 /\ log[i - 1].result = "Ok" /\ log[i].result = "Ok") =>
            /\ log[i].out = log[i - 1].out
            /\ log[i].directives = log[i - 1].directives
            /\ typed_file \notin Range(log[i].directives)
            /\ log[i].names = log[i - 1].names

C8_Witness ==
    \E i \in 1..Len(log) :
        /\ i > 1
        /\ log[i - 1].result = "Ok"
        /\ log[i].result = "Ok"
        /\ Len(log[i].names) >= 1
        /\ log[i].out0.exists

--------------------------------------------------------------------------
(* C10 *)

\* C10: a run opens invoke.d.ts for writing at most once, and only with the
\* environment variable set and every *.rs file of the tree read; until
\* then, and after a run that failed on the environment, on a path or on a
\* read, invoke.d.ts is as the run found it.
C10_OutputWrittenOnceAfterTheScan ==
    /\ wrote <= 1
    /\ Running => (out = out0 /\ wrote = 0)
    /\ \A i \in 1..Len(log) :
           /\ log[i].wrote <= 1
           /\ log[i].err \in {"VarError", "GlobError", "ReadError"} =>
                  (log[i].out = log[i].out0 /\ log[i].wrote = 0)
           /\ log[i].wrote = 1 =>
                  /\ env_set
                  /\ Len(log[i].reads) = Len(RsPathsUpTo(Len(tree)))
                  /\ \A j \in 1..Len(tree) : tree[j].kind = "file"

C10_Witness ==
    \E i \in 1..Len(log) :
        /\ log[i].err = "ReadError"
        /\ log[i].out0.exists
        /\ log[i].out = log[i].out0
        /\ Len(log[i].reads) >= 1


==========================================================================
